---- MODULE Spec2Model ----
(***************************************************************************)
(* generate_dashboard.py: three CSV loaders, the merge/aggregation step,   *)
(* main's sequence of steps up to the single write of the output file,     *)
(* and the script of the written report: the ratio, the filter and the     *)
(* sort of its table.                                                      *)
(*                                                                         *)
(* Representation.                                                         *)
(*   - A Python str is a sequence of one-character strings; None is the    *)
(*     distinguished value  None  (no cell text equals it).                *)
(*   - A dict key (a CSV column name) is a TLA+ string; the key None is    *)
(*     NoKey, which is in no header.                                       *)
(*   - A Python number is a record [k, v]: k = "int" (v the integer),      *)
(*     k = "float" (v the value in hundredths), k = "nan", k = "inf"       *)
(*     (v = 1 or -1), and PyNone is [k |-> "None", v |-> 0].               *)
(*   - The display-only field secteur and the source years are left out.   *)
(***************************************************************************)
EXTENDS Integers, Sequences, FiniteSets, TLC

VARIABLES
    pc,           \* main's position
    args,         \* parsed command line: departement, academie, nature_prefix, ips
    files,        \* content of the three input paths
    ind_rows,     \* result of load_indicateurs
    eff_map,      \* result of load_effectifs_latest
    ips_map,      \* result of load_ips
    records,      \* merge_data's records
    summary,      \* merge_data's summary
    baseRows,     \* the report script's rows (records plus ratio)
    output,       \* state of the output path
    calls,        \* the calls of main that have returned, in order
    script,       \* the written document's script, once a browser opens it
    sortKey,      \* the script's sort column
    sortDir,      \* the script's sort direction
    filterText,   \* the value of the document's filter input
    tbody         \* the rows of the table body, as last rendered

vars == <<pc, args, files, ind_rows, eff_map, ips_map, records, summary, baseRows, output, calls,
          script, sortKey, sortDir, filterText, tbody>>

-----------------------------------------------------------------------------
(* Bounds *)

MaxRows == 2

-----------------------------------------------------------------------------
(* Python str operations, on sequences of characters *)

None == <<"None">>
NoKey == "<None>"

UpperLetters == <<"A","B","C","D","E","F","G","H","I","J","K","L","M","N","O","P","Q","R","S","T","U","V","W","X","Y","Z","È","É">>
LowerLetters == <<"a","b","c","d","e","f","g","h","i","j","k","l","m","n","o","p","q","r","s","t","u","v","w","x","y","z","è","é">>
Digits == <<"0","1","2","3","4","5","6","7","8","9">>
Whitespace == {" ", "\t"}

\* The characters of the model's alphabet in code point order.
CodePoints == <<"\t", " ", "+", "-", ".", "_">> \o Digits
                \o SubSeq(UpperLetters, 1, 26) \o SubSeq(LowerLetters, 1, 26)
                \o <<"È","É","è","é">>

IndexIn(c, seq) == CHOOSE i \in 1..Len(seq) : seq[i] = c
IsIn(c, seq) == \E i \in 1..Len(seq) : seq[i] = c
Ord(c) == IndexIn(c, CodePoints)

MapSeq(Op(_), s) == [i \in 1..Len(s) |-> Op(s[i])]
UpperChar(c) == IF IsIn(c, LowerLetters) THEN UpperLetters[IndexIn(c, LowerLetters)] ELSE c
LowerChar(c) == IF IsIn(c, UpperLetters) THEN LowerLetters[IndexIn(c, UpperLetters)] ELSE c
Upper(s) == MapSeq(UpperChar, s)
Lower(s) == MapSeq(LowerChar, s)

RECURSIVE LStrip(_)
LStrip(s) == IF s # <<>> /\ Head(s) \in Whitespace THEN LStrip(Tail(s)) ELSE s
RECURSIVE RStrip(_)
RStrip(s) == IF s # <<>> /\ s[Len(s)] \in Whitespace THEN RStrip(SubSeq(s, 1, Len(s) - 1)) ELSE s
Strip(s) == RStrip(LStrip(s))

StartsWith(s, p) == Len(p) <= Len(s) /\ SubSeq(s, 1, Len(p)) = p

Zeros(n) == [i \in 1..n |-> "0"]
\* str.zfill(width): the zeros go after a leading sign.
Zfill(s, width) ==
    IF Len(s) >= width THEN s
    ELSE IF s # <<>> /\ Head(s) \in {"+", "-"}
         THEN <<Head(s)>> \o Zeros(width - Len(s)) \o Tail(s)
         ELSE Zeros(width - Len(s)) \o s
\* f"{s:0>width}": plain right-alignment with "0" as the fill character.
FormatRight0(s, width) == IF Len(s) >= width THEN s ELSE Zeros(width - Len(s)) \o s

\* s <= t on Python strings: lexicographic by code point.
RECURSIVE StrLeq(_, _)
StrLeq(s, t) ==
    IF s = <<>> THEN TRUE
    ELSE IF t = <<>> THEN FALSE
    ELSE IF Head(s) = Head(t) THEN StrLeq(Tail(s), Tail(t))
    ELSE Ord(Head(s)) < Ord(Head(t))

\* s.title(): a cased character is upper case after an uncased one or at the
\* start, lower case after a cased one.
IsCased(c) == IsIn(c, UpperLetters) \/ IsIn(c, LowerLetters)
Title(s) ==
    [i \in 1..Len(s) |-> IF i > 1 /\ IsCased(s[i - 1]) THEN LowerChar(s[i]) ELSE UpperChar(s[i])]

\* Truth value of a str-or-None, and  x or ""
Truthy(x) == x # None /\ x # <<>>
OrEmpty(x) == IF Truthy(x) THEN x ELSE <<>>

-----------------------------------------------------------------------------
(* Python numbers *)

PyNone == [k |-> "None", v |-> 0]
PyInt(n) == [k |-> "int", v |-> n]
PyFloat(h) == [k |-> "float", v |-> h]
PyNan == [k |-> "nan", v |-> 0]
PyInf(sign) == [k |-> "inf", v |-> sign]

AllDigits(s) == s # <<>> /\ \A i \in 1..Len(s) : IsIn(s[i], Digits)
DigitVal(c) == IndexIn(c, Digits) - 1
RECURSIVE DecVal(_)
DecVal(s) == IF s = <<>> THEN 0 ELSE DecVal(SubSeq(s, 1, Len(s) - 1)) * 10 + DigitVal(s[Len(s)])

Unsigned(t) == IF t # <<>> /\ Head(t) \in {"+", "-"} THEN Tail(t) ELSE t
SignOf(t) == IF t # <<>> /\ Head(t) = "-" THEN -1 ELSE 1

\* int(s) for a str s: [ok |-> FALSE] stands for ValueError.
IntOfStr(s) ==
    LET t == Strip(s)
        body == Unsigned(t)
    IN  IF AllDigits(body) THEN [ok |-> TRUE, val |-> PyInt(SignOf(t) * DecVal(body))]
        ELSE [ok |-> FALSE, val |-> PyNone]

DotAt(body) == IF IsIn(".", body) THEN IndexIn(".", body) ELSE Len(body) + 1
AllDigitsOrEmpty(s) == \A i \in 1..Len(s) : IsIn(s[i], Digits)
\* float(s) for a str s, for decimal literals without exponent and at most two
\* fractional digits, and the special literals; [ok |-> FALSE] is ValueError.
FloatOfStr(s) ==
    LET t == Strip(s)
        body == Unsigned(t)
        low == Lower(body)
        d == DotAt(body)
        ip == SubSeq(body, 1, d - 1)
        fp == SubSeq(body, d + 1, Len(body))
        frac == SubSeq(fp \o <<"0", "0">>, 1, 2)
    IN  IF low = <<"n","a","n">> THEN [ok |-> TRUE, val |-> PyNan]
        ELSE IF low \in {<<"i","n","f">>, <<"i","n","f","i","n","i","t","y">>}
             THEN [ok |-> TRUE, val |-> PyInf(SignOf(t))]
        ELSE IF AllDigitsOrEmpty(ip) /\ AllDigitsOrEmpty(fp) /\ Len(ip) + Len(fp) > 0
             THEN [ok |-> TRUE, val |-> PyFloat(SignOf(t) * (DecVal(ip) * 100 + DecVal(frac)))]
        ELSE [ok |-> FALSE, val |-> PyNone]

-----------------------------------------------------------------------------
(* csv.DictReader *)

Range(seq) == {seq[i] : i \in 1..Len(seq)}

\* The list DictReader stores under the key None (restkey) for a line with
\* more cells than the header has names.  Its content is never read; it is
\* true, it is no str and it cannot be a dict key.
RestList == <<"list">>
IsList(x) == x = RestList

\* One data line as DictReader yields it: the cells zipped with the field
\* names, a line shorter than the header filled with None (restval), the
\* cells beyond the header gathered under the key None (restkey).
DictRow(fieldnames, cells) ==
    [c \in Range(fieldnames) \cup (IF Len(cells) > Len(fieldnames) THEN {NoKey} ELSE {}) |->
        IF c = NoKey THEN RestList
        ELSE LET i == IndexIn(c, fieldnames) IN IF i <= Len(cells) THEN cells[i] ELSE None]

\* The rows of a file as dicts; DictReader skips the lines without any cell.
DictRows(file) ==
    LET kept == SelectSeq(file.rows, LAMBDA cells : cells # <<>>)
    IN  [i \in 1..Len(kept) |-> DictRow(file.fieldnames, kept[i])]

\* r.get(k) and r.get(k, default)
GetOr(r, k, default) == IF k \in DOMAIN r THEN r[k] ELSE default
Get(r, k) == GetOr(r, k, None)

\* pick(keys, fallback): the first alias present in the header.
RECURSIVE pick(_, _, _)
pick(keys, fieldnames, fallback) ==
    IF keys = <<>> THEN fallback
    ELSE IF Head(keys) \in Range(fieldnames) THEN Head(keys)
    ELSE pick(Tail(keys), fieldnames, fallback)

-----------------------------------------------------------------------------
(* load_indicateurs *)

sPublic == <<"p","u","b","l","i","c">>

IndicateursDepMatch(r, departement) == Get(r, "Code département") = departement

IndicateursKeep(r, departement, academie, nature_prefix) ==
    /\ IndicateursDepMatch(r, departement)
    /\ Upper(OrEmpty(Get(r, "Libellé académie"))) = Upper(academie)
    /\ Lower(Strip(OrEmpty(Get(r, "Secteur")))) = sPublic
    /\ StartsWith(Lower(Strip(OrEmpty(Get(r, "Nature de l'établissement")))),
                  Lower(nature_prefix))

load_indicateurs(file, departement, academie, nature_prefix) ==
    SelectSeq(DictRows(file),
              LAMBDA r : IndicateursKeep(r, departement, academie, nature_prefix))

-----------------------------------------------------------------------------
(* load_effectifs_latest *)

sCOLLEGE == <<"C","O","L","L","E","G","E">>

\* The column names resolved from the header (lines 84-93).
EffectifsKeys(fieldnames) ==
    [year    |-> pick(<<"Rentrée scolaire", "Annee_scolaire", "﻿Annee_scolaire">>,
                      fieldnames, fieldnames[1]),
     dep     |-> pick(<<"Code_departement", "Code département">>, fieldnames, NoKey),
     acad    |-> pick(<<"Academie", "Académie">>, fieldnames, NoKey),
     type    |-> pick(<<"Type_d_etablissement", "Dénomination principale">>, fieldnames, NoKey),
     secteur |-> pick(<<"Secteur_d_enseignement", "Secteur">>, fieldnames, NoKey),
     uai     |-> pick(<<"Numero_d_etablissement", "UAI">>, fieldnames, NoKey),
     eleves  |-> pick(<<"Nombre_d_eleves", "nombre_eleves_total">>, fieldnames, NoKey),
     commune |-> pick(<<"localite_acheminement", "Commune">>, fieldnames, NoKey),
     segpa   |-> pick(<<"Nombre d'élèves total Segpa", "Nombre_eleves_total_Segpa">>,
                      fieldnames, NoKey),
     ulis    |-> pick(<<"Nombre d'élèves total ULIS", "Nombre_eleves_total_ULIS">>,
                      fieldnames, NoKey)]

\* The comparison without padding, as in load_indicateurs.
EffectifsDepMatchExact(r, keys, departement) == Get(r, keys.dep) = departement
EffectifsDepMatch(r, keys, departement) ==
    Zfill(OrEmpty(Get(r, keys.dep)), 3) = FormatRight0(departement, 3)

\* The academy, type and sector filters and the non-empty identifier (lines 99-108).
EffectifsKeepOther(r, keys, academie) ==
    /\ Upper(OrEmpty(Get(r, keys.acad))) = Upper(academie)
    /\ Upper(Strip(OrEmpty(Get(r, keys.type)))) = sCOLLEGE
    /\ Lower(Strip(OrEmpty(Get(r, keys.secteur)))) = sPublic
    /\ Truthy(Get(r, keys.uai))

\* A row that reaches the year comparison (lines 96-108).
EffectifsKeep(r, keys, departement, academie) ==
    /\ EffectifsDepMatch(r, keys, departement)
    /\ EffectifsKeepOther(r, keys, academie)

\* The filters of lines 96-110 met in order with a restkey list where a str
\* is expected: .zfill, .upper and .strip raise AttributeError, and
\* latest.get(uai) raises TypeError on the unhashable list.
EffectifsFilterRaises(r, keys, departement, academie) ==
    IF IsList(Get(r, keys.dep)) THEN TRUE
    ELSE IF ~EffectifsDepMatch(r, keys, departement) THEN FALSE
    ELSE IF IsList(Get(r, keys.acad)) THEN TRUE
    ELSE IF Upper(OrEmpty(Get(r, keys.acad))) # Upper(academie) THEN FALSE
    ELSE IF IsList(Get(r, keys.type)) THEN TRUE
    ELSE IF Upper(Strip(OrEmpty(Get(r, keys.type)))) # sCOLLEGE THEN FALSE
    ELSE IF IsList(Get(r, keys.secteur)) THEN TRUE
    ELSE IF Lower(Strip(OrEmpty(Get(r, keys.secteur)))) # sPublic THEN FALSE
    ELSE IsList(Get(r, keys.uai))

\* int(cell or 0) under try/except (TypeError, ValueError) -> None
IntCellOrZero(cell) ==
    IF IsList(cell) THEN PyNone
    ELSE IF Truthy(cell)
    THEN LET p == IntOfStr(cell) IN IF p.ok THEN p.val ELSE PyNone
    ELSE PyInt(0)

\* int(r.get(key) or 0) if key else None
IntCellIfKey(r, key) == IF key # NoKey THEN IntCellOrZero(Get(r, key)) ELSE PyNone

\* year <= prev["year"] raises TypeError when a side is None (a short line).
YearCompareRaises(year, prevYear) == year = None \/ prevYear = None
\* The comparison with its operands exchanged.
NotNewerReversed(year, prevYear) == StrLeq(prevYear, year)
\* prev and year <= prev["year"]: the row is not newer than the retained one.
NotNewer(year, prevYear) == StrLeq(year, prevYear)

EffectifsRecord(r, keys) ==
    [year    |-> GetOr(r, keys.year, <<>>),
     eleves  |-> IntCellOrZero(Get(r, keys.eleves)),
     commune |-> Get(r, keys.commune),
     segpa   |-> IntCellIfKey(r, keys.segpa),
     ulis    |-> IntCellIfKey(r, keys.ulis)]

\* One iteration of the loop of lines 95-131 on the state [err, map].
EffectifsStep(st, r, keys, departement, academie) ==
    IF st.err THEN st
    ELSE IF EffectifsFilterRaises(r, keys, departement, academie) THEN [st EXCEPT !.err = TRUE]
    ELSE IF ~EffectifsKeep(r, keys, departement, academie) THEN st
    ELSE LET uai == Get(r, keys.uai)
             year == GetOr(r, keys.year, <<>>)
             known == uai \in DOMAIN st.map
         IN  IF known /\ YearCompareRaises(year, st.map[uai].year)
             THEN [st EXCEPT !.err = TRUE]
             ELSE IF known /\ NotNewer(year, st.map[uai].year) THEN st
             ELSE [st EXCEPT !.map = [u \in DOMAIN st.map \cup {uai} |->
                        IF u = uai THEN EffectifsRecord(r, keys) ELSE st.map[u]]]

RECURSIVE EffectifsLoop(_, _, _, _, _)
EffectifsLoop(st, rows, keys, departement, academie) ==
    IF rows = <<>> THEN st
    ELSE EffectifsLoop(EffectifsStep(st, Head(rows), keys, departement, academie),
                       Tail(rows), keys, departement, academie)

EmptyMap == [u \in {} |-> PyNone]

\* [err |-> TRUE] stands for the TypeError or AttributeError that leaves the loader.
load_effectifs_latest(file, departement, academie) ==
    IF file.fieldnames = <<>> THEN [err |-> FALSE, map |-> EmptyMap]
    ELSE EffectifsLoop([err |-> FALSE, map |-> EmptyMap], DictRows(file),
                       EffectifsKeys(file.fieldnames), departement, academie)

-----------------------------------------------------------------------------
(* load_ips *)

sPriv == <<"p","r","i","v">>

IpsKeys(fieldnames) ==
    [dep     |-> pick(<<"Code du département", "Code_departement">>, fieldnames, NoKey),
     acad    |-> pick(<<"Académie", "Academie", "Code académie">>, fieldnames, NoKey),
     secteur |-> pick(<<"Secteur", "secteur">>, fieldnames, NoKey),
     uai     |-> pick(<<"UAI">>, fieldnames, NoKey),
     ips     |-> pick(<<"IPS">>, fieldnames, NoKey),
     ecart   |-> pick(<<"Ecart type de l'IPS", "Ecart type IPS">>, fieldnames, NoKey),
     year    |-> pick(<<"Rentrée scolaire">>, fieldnames, NoKey)]

\* The department test of line 164: a restkey list differs from every str.
IpsDepMatch(r, keys, departement) ==
    ~ (/\ OrEmpty(Get(r, keys.dep)) # Zfill(departement, 2)
       /\ OrEmpty(Get(r, keys.dep)) # Zfill(departement, 3))

IpsKeep(r, keys, departement, academie) ==
    /\ IpsDepMatch(r, keys, departement)
    /\ Upper(OrEmpty(Get(r, keys.acad))) = Upper(academie)
    /\ ~StartsWith(Lower(Strip(OrEmpty(Get(r, keys.secteur)))), sPriv)
    /\ Truthy(Get(r, keys.uai))

\* float(cell) if cell else None, under try/except (TypeError, ValueError): pass
FloatCellOrNone(cell) ==
    IF IsList(cell) THEN PyNone
    ELSE IF Truthy(cell)
    THEN LET p == FloatOfStr(cell) IN IF p.ok THEN p.val ELSE PyNone
    ELSE PyNone

IpsRecord(r, keys) ==
    [ips   |-> FloatCellOrNone(Get(r, keys.ips)),
     ecart |-> FloatCellOrNone(Get(r, keys.ecart)),
     year  |-> Get(r, keys.year)]

\* The filters of lines 164-183 met in order with a restkey list where a str
\* is expected: .upper and .strip raise AttributeError, and ips_map[uai] = ...
\* raises TypeError on the unhashable list.
IpsFilterRaises(r, keys, departement, academie) ==
    IF ~IpsDepMatch(r, keys, departement) THEN FALSE
    ELSE IF IsList(Get(r, keys.acad)) THEN TRUE
    ELSE IF Upper(OrEmpty(Get(r, keys.acad))) # Upper(academie) THEN FALSE
    ELSE IF IsList(Get(r, keys.secteur)) THEN TRUE
    ELSE IF StartsWith(Lower(Strip(OrEmpty(Get(r, keys.secteur)))), sPriv) THEN FALSE
    ELSE IsList(Get(r, keys.uai))

\* The loop's iteration with the year comparison of the headcount loader: a
\* row replaces the retained one only when its year is greater.
IpsStepLatestYear(st, r, keys, departement, academie) ==
    IF st.err THEN st
    ELSE IF IpsFilterRaises(r, keys, departement, academie) THEN [st EXCEPT !.err = TRUE]
    ELSE IF ~IpsKeep(r, keys, departement, academie) THEN st
    ELSE LET uai == Get(r, keys.uai)
         IN  IF uai \in DOMAIN st.map /\ NotNewer(OrEmpty(Get(r, keys.year)),
                                                   OrEmpty(st.map[uai].year))
             THEN st
             ELSE [st EXCEPT !.map = [u \in DOMAIN st.map \cup {uai} |->
                        IF u = uai THEN IpsRecord(r, keys) ELSE st.map[u]]]
\* One iteration of the loop of lines 163-183 on the state [err, map].
IpsStep(st, r, keys, departement, academie) ==
    IF st.err THEN st
    ELSE IF IpsFilterRaises(r, keys, departement, academie) THEN [st EXCEPT !.err = TRUE]
    ELSE IF ~IpsKeep(r, keys, departement, academie) THEN st
    ELSE LET uai == Get(r, keys.uai)
         IN  [st EXCEPT !.map = [u \in DOMAIN st.map \cup {uai} |->
                    IF u = uai THEN IpsRecord(r, keys) ELSE st.map[u]]]

RECURSIVE IpsLoop(_, _, _, _, _)
IpsLoop(st, rows, keys, departement, academie) ==
    IF rows = <<>> THEN st
    ELSE IpsLoop(IpsStep(st, Head(rows), keys, departement, academie),
                 Tail(rows), keys, departement, academie)

\* Called with a path (the case  not path  is the caller's, see LoadIps).
\* [err |-> TRUE] stands for the TypeError or AttributeError that leaves the loader.
load_ips(file, departement, academie) ==
    IF file.fieldnames = <<>> THEN [err |-> FALSE, map |-> EmptyMap]
    ELSE IpsLoop([err |-> FALSE, map |-> EmptyMap], DictRows(file), IpsKeys(file.fieldnames),
                 departement, academie)

-----------------------------------------------------------------------------
(* Python float arithmetic used by the summary, on [k, v] numbers.  Finite   *)
(* values are exact in hundredths; rounding is done on the exact value.      *)

IsNumber(x) == x.k \in {"int", "float", "nan", "inf"}     \* isinstance(x, (int, float))
IsInt(x) == x.k = "int"                                    \* isinstance(x, int)
IsFinite(x) == x.k \in {"int", "float"}

\* The value of a finite number in hundredths.
Hundredths(x) == IF x.k = "int" THEN x.v * 100 ELSE x.v

FAdd(a, b) ==
    IF a.k = "nan" \/ b.k = "nan" THEN PyNan
    ELSE IF a.k = "inf" /\ b.k = "inf" THEN (IF a.v = b.v THEN a ELSE PyNan)
    ELSE IF a.k = "inf" THEN a
    ELSE IF b.k = "inf" THEN b
    ELSE IF a.k = "int" /\ b.k = "int" THEN PyInt(a.v + b.v)
    ELSE PyFloat(Hundredths(a) + Hundredths(b))

\* a < b; every comparison with nan is False.
FLess(a, b) ==
    IF a.k = "nan" \/ b.k = "nan" THEN FALSE
    ELSE IF a.k = "inf" THEN a.v = -1 /\ ~(b.k = "inf" /\ b.v = -1)
    ELSE IF b.k = "inf" THEN b.v = 1
    ELSE Hundredths(a) < Hundredths(b)

\* sum(xs): 0 + xs[0] + xs[1] + ...
RECURSIVE SumFrom(_, _)
SumFrom(acc, xs) == IF xs = <<>> THEN acc ELSE SumFrom(FAdd(acc, Head(xs)), Tail(xs))
Sum(xs) == SumFrom(PyInt(0), xs)

\* min(xs) and max(xs) of a non-empty list: the first item is kept unless a
\* later one compares smaller (greater).
RECURSIVE MinFrom(_, _)
MinFrom(cur, xs) ==
    IF xs = <<>> THEN cur
    ELSE MinFrom(IF FLess(Head(xs), cur) THEN Head(xs) ELSE cur, Tail(xs))
Min(xs) == MinFrom(Head(xs), Tail(xs))
RECURSIVE MaxFrom(_, _)
MaxFrom(cur, xs) ==
    IF xs = <<>> THEN cur
    ELSE MaxFrom(IF FLess(cur, Head(xs)) THEN Head(xs) ELSE cur, Tail(xs))
Max(xs) == MaxFrom(Head(xs), Tail(xs))

\* The integer nearest to n / d (d > 0), ties to even.
RoundDiv(n, d) ==
    LET q == n \div d
        r == n % d
    IN  IF 2 * r < d THEN q
        ELSE IF 2 * r > d THEN q + 1
        ELSE IF q % 2 = 0 THEN q ELSE q + 1

\* round(x, 2) and round(x, 1) of a float; nan and inf are returned as they are.
Round2(x) == IF IsFinite(x) THEN PyFloat(Hundredths(x)) ELSE x
Round1(x) == IF IsFinite(x) THEN PyFloat(RoundDiv(Hundredths(x), 10) * 10) ELSE x

\* round(total / n, 2) and round(total / n, 1) for n > 0
Mean2(total, n) == IF IsFinite(total) THEN PyFloat(RoundDiv(Hundredths(total), n)) ELSE total
Mean1(total, n) ==
    IF IsFinite(total) THEN PyFloat(RoundDiv(Hundredths(total), 10 * n) * 10) ELSE total

-----------------------------------------------------------------------------
(* merge_data *)

\* float(r[key]) if r[key] else None, under try/except (ValueError, KeyError)
AedOf(r) == 
    LET key == "ETP de personnels de vie scolaire"
    IN  IF key \notin DOMAIN r THEN PyNone ELSE FloatCellOrNone(r[key])

\* float(r.get(key) or 0), under try/except (ValueError, TypeError)
EtpEnseignantsOf(r) ==
    LET cell == Get(r, "ETP enseignants (hommes et femmes)")
    IN  IF Truthy(cell)
        THEN LET p == FloatOfStr(cell) IN IF p.ok THEN p.val ELSE PyNone
        ELSE PyFloat(0)

\* One record (lines 212-246); eff_map.get(uai) and ips_map.get(uai) are None
\* for an identifier that is not a key.
MergeRecord(r, effMap, ipsMap) ==
    LET uai == Get(r, "Identifiant de l'établissement")
        hasEff == uai \in DOMAIN effMap
        hasIps == uai \in DOMAIN ipsMap
    IN  [uai             |-> uai,
         nom             |-> Title(OrEmpty(Get(r, "Nom de l'établissement"))),
         aed_etp         |-> AedOf(r),
         etp_enseignants |-> EtpEnseignantsOf(r),
         eleves          |-> IF hasEff THEN effMap[uai].eleves ELSE PyNone,
         effectifs_annee |-> IF hasEff THEN effMap[uai].year ELSE None,
         commune         |-> IF hasEff THEN effMap[uai].commune ELSE None,
         segpa           |-> IF hasEff THEN effMap[uai].segpa ELSE PyNone,
         ulis            |-> IF hasEff THEN effMap[uai].ulis ELSE PyNone,
         ips             |-> IF hasIps THEN ipsMap[uai].ips ELSE PyNone,
         ips_ecart       |-> IF hasIps THEN ipsMap[uai].ecart ELSE PyNone]

\* An inner join: the rows without a headcount record are dropped.
MergeRecordsInner(indRows, effMap, ipsMap) ==
    LET kept == SelectSeq(indRows,
                    LAMBDA r : Get(r, "Identifiant de l'établissement") \in DOMAIN effMap)
    IN  [i \in 1..Len(kept) |-> MergeRecord(kept[i], effMap, ipsMap)]
MergeRecords(indRows, effMap, ipsMap) ==
    [i \in 1..Len(indRows) |-> MergeRecord(indRows[i], effMap, ipsMap)]

\* [x[f] for x in recs if isinstance(x[f], ...)]
Column(recs, f) == [i \in 1..Len(recs) |-> recs[i][f]]
ValidNumbers(recs, f) == SelectSeq(Column(recs, f), IsNumber)
ValidInts(recs, f) == SelectSeq(Column(recs, f), IsInt)

\* The total without its guard on the empty list.
TotalOfUnguarded(valid) == Round2(Sum(valid))
\* <expr> if valid else None
TotalOf(valid) == IF valid # <<>> THEN Round2(Sum(valid)) ELSE PyNone
MeanOf(valid) == IF valid # <<>> THEN Mean2(Sum(valid), Len(valid)) ELSE PyNone
MinOf(valid) == IF valid # <<>> THEN Round2(Min(valid)) ELSE PyNone
MaxOf(valid) == IF valid # <<>> THEN Round2(Max(valid)) ELSE PyNone
IntTotalOf(valid) == IF valid # <<>> THEN Sum(valid) ELSE PyNone
IpsMeanOf(valid) == IF valid # <<>> THEN Mean1(Sum(valid), Len(valid)) ELSE PyNone
IpsMinOf(valid) == IF valid # <<>> THEN Round1(Min(valid)) ELSE PyNone
IpsMaxOf(valid) == IF valid # <<>> THEN Round1(Max(valid)) ELSE PyNone

Summary(recs) ==
    [nb_colleges   |-> Len(recs),
     aed_total     |-> TotalOf(ValidNumbers(recs, "aed_etp")),
     aed_moyen     |-> MeanOf(ValidNumbers(recs, "aed_etp")),
     aed_min       |-> MinOf(ValidNumbers(recs, "aed_etp")),
     aed_max       |-> MaxOf(ValidNumbers(recs, "aed_etp")),
     etp_ens_total |-> TotalOf(ValidNumbers(recs, "etp_enseignants")),
     etp_ens_moyen |-> MeanOf(ValidNumbers(recs, "etp_enseignants")),
     eleves_total  |-> IntTotalOf(ValidInts(recs, "eleves")),
     segpa_total   |-> IntTotalOf(ValidInts(recs, "segpa")),
     ulis_total    |-> IntTotalOf(ValidInts(recs, "ulis")),
     ips_moyen     |-> IpsMeanOf(ValidNumbers(recs, "ips")),
     ips_min       |-> IpsMinOf(ValidNumbers(recs, "ips")),
     ips_max       |-> IpsMaxOf(ValidNumbers(recs, "ips"))]

-----------------------------------------------------------------------------
(* render_html: the data block and the script's baseRows *)

\* A JavaScript value: null, a finite number n / d (d > 0), NaN, or an
\* infinity (n = 1 or -1).
JsNull == [k |-> "null", n |-> 0, d |-> 1]
JsNum(n, d) == [k |-> "number", n |-> n, d |-> d]
JsNaN == [k |-> "NaN", n |-> 0, d |-> 1]
JsInfinity(sign) == [k |-> "Infinity", n |-> sign, d |-> 1]

\* json.dumps of a Python number, as the value its text denotes:
\* None -> null, nan -> NaN, inf -> Infinity, -inf -> -Infinity.
JsOfPy(x) ==
    CASE x.k = "None"  -> JsNull
      [] x.k = "int"   -> JsNum(x.v, 1)
      [] x.k = "float" -> JsNum(x.v, 100)
      [] x.k = "nan"   -> JsNaN
      [] x.k = "inf"   -> JsInfinity(x.v)

\* The numeric fields of a record and the statistics of the summary.
RecordNumbers == {"aed_etp", "etp_enseignants", "eleves", "segpa", "ulis", "ips", "ips_ecart"}
SummaryNumbers ==
    {"aed_total", "aed_moyen", "aed_min", "aed_max", "etp_ens_total", "etp_ens_moyen",
     "eleves_total", "segpa_total", "ulis_total", "ips_moyen", "ips_min", "ips_max"}

\* JSON.parse(data block): NaN, Infinity and -Infinity are no JSON, so the
\* text json.dumps wrote for a nan or inf makes it throw SyntaxError.
JsonParseThrows(recs, summ) ==
    \/ \E i \in 1..Len(recs) : \E f \in RecordNumbers : JsOfPy(recs[i][f]).k \in {"NaN", "Infinity"}
    \/ \E f \in SummaryNumbers : JsOfPy(summ[f]).k \in {"NaN", "Infinity"}

TypeofNumber(x) == x.k \in {"number", "NaN", "Infinity"}    \* typeof x === 'number'
JsPositive(x) == x.k \in {"number", "Infinity"} /\ x.n > 0       \* x > 0

\* a / b for b > 0
JsDiv(a, b) ==
    IF a.k = "NaN" THEN JsNaN
    ELSE IF a.k = "Infinity" THEN (IF b.k = "Infinity" THEN JsNaN ELSE a)
    ELSE IF b.k = "Infinity" THEN JsNum(0, 1)
    ELSE JsNum(a.n * b.d, a.d * b.n)

\* The condition without the test of the sign.
RatioDefinedAnySign(eleves, aed) == TypeofNumber(eleves) /\ TypeofNumber(aed)
\* The condition of the ternary of lines 478-480.
RatioDefined(eleves, aed) == TypeofNumber(eleves) /\ TypeofNumber(aed) /\ JsPositive(aed)

Ratio(eleves, aed) == IF RatioDefined(eleves, aed) THEN JsDiv(eleves, aed) ELSE JsNull

\* records.map(r => ({...r, ratio: ...})); a str stays as it is and None is null.
BaseRows(recs) ==
    [i \in 1..Len(recs) |->
        [uai             |-> recs[i].uai,
         nom             |-> recs[i].nom,
         commune         |-> recs[i].commune,
         eleves          |-> JsOfPy(recs[i].eleves),
         segpa           |-> JsOfPy(recs[i].segpa),
         ulis            |-> JsOfPy(recs[i].ulis),
         ips             |-> JsOfPy(recs[i].ips),
         ips_ecart       |-> JsOfPy(recs[i].ips_ecart),
         etp_enseignants |-> JsOfPy(recs[i].etp_enseignants),
         aed_etp         |-> JsOfPy(recs[i].aed_etp),
         ratio           |-> Ratio(JsOfPy(recs[i].eleves), JsOfPy(recs[i].aed_etp))]]

\* The data-sort attributes of the table's headers (lines 386-395); the
\* first two columns hold text, the others numbers.
SortKeys ==
    {"nom", "commune", "eleves", "ips", "ips_ecart", "etp_enseignants", "aed_etp", "ratio"}
TextKeys == {"nom", "commune"}

\* v === null || v === undefined  for the value of a row under a sort key
\* (every row has every key, so undefined does not occur).
JsIsNull(key, v) == IF key \in TextKeys THEN v = None ELSE v.k = "null"

\* a < b on two numbers.
NumLess(a, b) ==
    IF a.k = "NaN" \/ b.k = "NaN" THEN FALSE
    ELSE IF a.k = "Infinity" THEN a.n < 0 /\ ~(b.k = "Infinity" /\ b.n < 0)
    ELSE IF b.k = "Infinity" THEN b.n > 0
    ELSE a.n * b.d < b.n * a.d
\* a < b on two values of one column: strings by code unit, numbers by value.
JsLess(key, a, b) == IF key \in TextKeys THEN a # b /\ StrLeq(a, b) ELSE NumLess(a, b)

\* The comparator with the direction applied to the null cases too.
CompareNullByDir(a, b, key, dirName) ==
    LET dir == IF dirName = "asc" THEN 1 ELSE -1
    IN  IF JsIsNull(key, a[key]) THEN dir
        ELSE IF JsIsNull(key, b[key]) THEN -dir
        ELSE IF JsLess(key, a[key], b[key]) THEN -dir
        ELSE IF JsLess(key, b[key], a[key]) THEN dir
        ELSE 0
\* The comparator of applySort (lines 484-492).
Compare(a, b, key, dirName) ==
    LET dir == IF dirName = "asc" THEN 1 ELSE -1
        av == a[key]
        bv == b[key]
    IN  IF JsIsNull(key, av) THEN 1
        ELSE IF JsIsNull(key, bv) THEN -1
        ELSE IF JsLess(key, av, bv) THEN -1 * dir
        ELSE IF JsLess(key, bv, av) THEN 1 * dir
        ELSE 0

(* Array.prototype.sort.  The comparator returns 1 for a row with a null    *)
(* value compared with itself or with another such row, so it is not a      *)
(* consistent comparator and the order is left to the engine.  Two          *)
(* comparison sorts an engine may run are modelled: the binary insertion    *)
(* sort that follows the detection of a first run, and a merge sort.        *)

Reverse(a) == [i \in 1..Len(a) |-> a[Len(a) + 1 - i]]

\* The last index of the run that starts at a[1], i being in it.
RECURSIVE RunEnd(_, _, _, _, _)
RunEnd(a, i, descending, key, dirName) ==
    IF i = Len(a) THEN i
    ELSE LET order == Compare(a[i + 1], a[i], key, dirName)
         IN  IF (descending /\ order >= 0) \/ (~descending /\ order < 0) THEN i
             ELSE RunEnd(a, i + 1, descending, key, dirName)

\* The number of elements of a[1..right] that stay before the pivot, by
\* binary search from left.
RECURSIVE InsertPos(_, _, _, _, _, _)
InsertPos(a, pivot, left, right, key, dirName) ==
    IF left >= right THEN left
    ELSE LET mid == left + ((right - left) \div 2)
         IN  IF Compare(pivot, a[mid + 1], key, dirName) < 0
             THEN InsertPos(a, pivot, left, mid, key, dirName)
             ELSE InsertPos(a, pivot, mid + 1, right, key, dirName)

\* a[1..start-1] is sorted; insert a[start], a[start+1], ... in turn.
RECURSIVE InsertFrom(_, _, _, _)
InsertFrom(a, start, key, dirName) ==
    IF start > Len(a) THEN a
    ELSE LET pos == InsertPos(a, a[start], 0, start - 1, key, dirName)
             b == SubSeq(a, 1, pos) \o <<a[start]>> \o SubSeq(a, pos + 1, start - 1)
                    \o SubSeq(a, start + 1, Len(a))
         IN  InsertFrom(b, start + 1, key, dirName)

InsertionSort(a, key, dirName) ==
    IF Len(a) < 2 THEN a
    ELSE LET descending == Compare(a[2], a[1], key, dirName) < 0
             n == RunEnd(a, 2, descending, key, dirName)
             b == IF descending THEN Reverse(SubSeq(a, 1, n)) \o SubSeq(a, n + 1, Len(a)) ELSE a
         IN  InsertFrom(b, n + 1, key, dirName)

RECURSIVE Merge(_, _, _, _)
Merge(l, r, key, dirName) ==
    IF l = <<>> THEN r
    ELSE IF r = <<>> THEN l
    ELSE IF Compare(Head(l), Head(r), key, dirName) <= 0
         THEN <<Head(l)>> \o Merge(Tail(l), r, key, dirName)
         ELSE <<Head(r)>> \o Merge(l, Tail(r), key, dirName)

RECURSIVE MergeSort(_, _, _)
MergeSort(a, key, dirName) ==
    IF Len(a) < 2 THEN a
    ELSE LET h == Len(a) \div 2
         IN  Merge(MergeSort(SubSeq(a, 1, h), key, dirName),
                   MergeSort(SubSeq(a, h + 1, Len(a)), key, dirName), key, dirName)

\* rows.slice().sort(comparator): the results the engines give.
applySort(rows, key, dirName) ==
    {InsertionSort(rows, key, dirName), MergeSort(rows, key, dirName)}

\* s.includes(q)
Includes(s, q) == \E i \in 0..(Len(s) - Len(q)) : SubSeq(s, i + 1, i + Len(q)) = q

\* applyFilter (lines 496-502) for the text q of the filter input.
applyFilter(rows, q) ==
    LET ql == Lower(q)
    IN  SelectSeq(rows, LAMBDA r :
            \/ ql = <<>>
            \/ Includes(Lower(OrEmpty(r.nom)), ql)
            \/ Includes(Lower(OrEmpty(r.commune)), ql))

\* Texts typed into the filter input.
FilterTexts == {<<>>, <<"A","r">>}

\* renderTable (lines 504-521): the rows written to the table body.
renderTable(rows, q, key, dirName) == applySort(applyFilter(rows, q), key, dirName)

-----------------------------------------------------------------------------
(* Input texts: the cell and argument values the files and the command line  *)
(* are drawn from.                                                           *)

s44 == <<"4","4">>
s044 == <<"0","4","4">>
s45 == <<"4","5">>
s4 == <<"4">>
sNANTES == <<"N","A","N","T","E","S">>
sNantes == <<"N","a","n","t","e","s">>
sRENNES == <<"R","E","N","N","E","S">>
cPublic == <<" ","P","u","b","l","i","c"," ">>
cPrive == <<"P","R","I","V","E">>
cPriveContrat == <<"p","r","i","v","é"," ","s","o","u","s"," ","c","o","n","t","r","a","t">>
cNatCollege == <<"C","O","L","L","È","G","E">>
cNatLycee == <<"L","Y","C","É","E">>
sNaturePrefix == <<"c","o","l","l","è","g","e">>
sNaturePrefixShort == <<"C","o","l","l">>
cTypeCollege == <<" ","c","o","l","l","e","g","e">>
cTypeLycee == <<"L","Y","C","E","E">>
uaiA == <<"0","4","4","A">>
uaiB == <<"0","4","4","B">>
uaiC == <<"0","4","4","C">>
y2022 == <<"2","0","2","2">>
y2023 == <<"2","0","2","3">>
cAbc == <<"a","b","c">>
c0 == <<"0">>
c7 == <<"7">>
c12 == <<"1","2">>
c16 == <<"1","6">>
c30 == <<"3","0">>
c300 == <<"3","0","0">>
c450 == <<"4","5","0">>
c12_5 == <<"1","2",".","5">>
cNeg3 == <<"-","3">>
cNan == <<"n","a","n">>
cInf == <<"i","n","f">>
cNegInf == <<"-","I","n","f">>
c101_5 == <<"1","0","1",".","5">>
c95_25 == <<"9","5",".","2","5">>
c28_4 == <<"2","8",".","4">>
cCommune == <<"R","E","Z","E">>

\* Cells of a column parsed with float().
FloatCells == {<<>>, cAbc, c12_5, c0, cNeg3, cNan, cInf}
\* Cells of a column parsed with int().
IntCells == {<<>>, cAbc, c0, c16}

\* All sequences over S of length at most n.
SeqsUpTo(S, n) == UNION {[1..k -> S] : k \in 0..n}

NoFile == [fieldnames |-> <<>>, rows |-> <<>>]

\* seq without its i-th element: a header without one column, a line without
\* that column's cell.
Without(seq, i) == SubSeq(seq, 1, i - 1) \o SubSeq(seq, i + 1, Len(seq))
cExtra == <<"x">>
\* The files made of a header without its i-th column and of lines that are a
\* copy of  line  without that cell, some of them with one cell more than the
\* header has names.
FilesWithout(fields, line, i) ==
    {[fieldnames |-> Without(fields, i), rows |-> rows] :
        rows \in SeqsUpTo({Without(line, i), Without(line, i) \o <<cExtra>>}, MaxRows) \ {<<>>}}

(* Indicator file *)
IndFields ==
    <<"Code département", "Libellé académie", "Secteur", "Nature de l'établissement",
      "Identifiant de l'établissement", "ETP enseignants (hommes et femmes)",
      "ETP de personnels de vie scolaire", "Nom de l'établissement">>
\* The same extract without the vie-scolaire and name columns.
IndFieldsNoAed == SubSeq(IndFields, 1, 6)

\* The name cell of the school with a given identifier.
cNomOf(uai) ==
    CASE uai = uaiA -> <<"J","E","A","N"," ","z","a","y">>
      [] uai = uaiB -> <<"a","r","a","g","o","n">>
      [] OTHER      -> <<>>
IndLine(dep, acad, secteur, nature, uai, etp, aed) ==
    <<dep, acad, secteur, nature, uai, etp, aed, cNomOf(uai)>>
IndGood(uai, etp, aed) == IndLine(s44, sNANTES, cPublic, cNatCollege, uai, etp, aed)

IndLines ==
    {IndLine(s044, sNANTES, cPublic, cNatCollege, uaiA, c30, c12_5),
     IndLine(s44, sNantes, cPublic, cNatCollege, uaiA, c30, c12_5),
     IndLine(s44, sRENNES, cPublic, cNatCollege, uaiA, c30, c12_5),
     IndLine(s44, sNANTES, cPrive, cNatCollege, uaiA, c30, c12_5),
     IndLine(s44, sNANTES, cPublic, cNatLycee, uaiA, c30, c12_5)}
    \cup {IndGood(uaiA, c30, aed) : aed \in FloatCells}
    \cup {IndGood(uaiB, c30, aed) : aed \in {<<>>, c7}}
    \cup {IndGood(uaiC, etp, c12_5) : etp \in {<<>>, cAbc, cNegInf}}
    \* lines that end before the last columns
    \cup {SubSeq(IndGood(uaiB, c30, c7), 1, 6), SubSeq(IndGood(uaiB, c30, c7), 1, 4)}

IndFiles ==
    {[fieldnames |-> IndFields, rows |-> rows] : rows \in SeqsUpTo(IndLines, MaxRows)}
    \cup {[fieldnames |-> IndFieldsNoAed, rows |-> <<SubSeq(IndGood(uaiA, etp, c7), 1, 6)>>] :
            etp \in {c30, <<>>}}
    \cup UNION {FilesWithout(IndFields, IndGood(uaiA, c30, c12_5), i) : i \in 1..4}
    \cup {NoFile}

IndSample ==
    [fieldnames |-> IndFields,
     rows |-> <<IndGood(uaiA, c30, c12_5), IndGood(uaiB, c30, <<>>), IndGood(uaiC, c30, c7)>>]

(* Headcount file, in its two schemes *)
EffFields ==
    <<"Code département", "Académie", "Dénomination principale", "Secteur", "UAI",
      "Rentrée scolaire", "Commune", "nombre_eleves_total",
      "Nombre d'élèves total Segpa", "Nombre d'élèves total ULIS">>
EffFieldsCollege ==
    <<"Code_departement", "Academie", "Type_d_etablissement", "Secteur_d_enseignement",
      "Numero_d_etablissement", "Annee_scolaire", "localite_acheminement", "Nombre_d_eleves">>

EffLine(dep, acad, type, secteur, uai, year, eleves, segpa, ulis) ==
    <<dep, acad, type, secteur, uai, year, cCommune, eleves, segpa, ulis>>
EffGood(uai, year, eleves, segpa, ulis) ==
    EffLine(s44, sNANTES, cTypeCollege, cPublic, uai, year, eleves, segpa, ulis)

EffLines ==
    {EffLine(dep, sNANTES, cTypeCollege, cPublic, uaiA, y2022, c450, c16, c12) :
        dep \in {s044, s45}}
    \cup {EffLine(s44, sRENNES, cTypeCollege, cPublic, uaiA, y2022, c450, c16, c12),
          EffLine(s44, sNANTES, cTypeLycee, cPublic, uaiA, y2022, c450, c16, c12),
          EffLine(s44, sNANTES, cTypeCollege, cPrive, uaiA, y2022, c450, c16, c12),
          EffLine(s44, sNANTES, cTypeCollege, cPublic, <<>>, y2022, c450, c16, c12)}
    \cup {EffGood(uaiA, year, c300, c16, c12) : year \in {<<>>, y2022, y2023}}
    \cup {EffGood(uaiB, year, c300, c16, c12) : year \in {y2022, y2023}}
    \cup {EffGood(uaiA, y2023, eleves, c16, c12) : eleves \in IntCells}
    \cup {EffGood(uaiA, y2023, c300, segpa, c12) : segpa \in IntCells}
    \cup {EffGood(uaiA, y2023, c300, c16, <<>>)}
    \* lines that end before the last columns
    \cup {SubSeq(EffGood(uaiA, y2023, c300, c16, c12), 1, n) : n \in {5, 7}}

EffFiles ==
    {[fieldnames |-> EffFields, rows |-> rows] : rows \in SeqsUpTo(EffLines, MaxRows)}
    \cup {[fieldnames |-> EffFieldsCollege,
           rows |-> <<SubSeq(EffGood(uaiA, y2023, eleves, c16, c12), 1, 8)>>] :
            eleves \in {c300, <<>>}}
    \cup UNION {FilesWithout(EffFields, EffGood(uaiA, y2023, c300, c16, c12), i) : i \in 1..5}
    \cup {NoFile}

EffSample ==
    [fieldnames |-> EffFields,
     rows |-> <<EffGood(uaiA, y2022, c450, c16, c12), EffGood(uaiA, y2023, c300, <<>>, c12),
                EffGood(uaiB, y2023, cAbc, c16, c0)>>]

(* Social-index file *)
IpsFields ==
    <<"Code du département", "Académie", "Secteur", "UAI", "Rentrée scolaire", "IPS",
      "Ecart type de l'IPS">>

IpsLine(dep, acad, secteur, uai, year, ipsCell, ecart) ==
    <<dep, acad, secteur, uai, year, ipsCell, ecart>>
IpsGood(uai, year, ipsCell, ecart) == IpsLine(s044, sNANTES, cPublic, uai, year, ipsCell, ecart)

IpsLines ==
    {IpsLine(dep, sNANTES, cPublic, uaiA, y2023, c101_5, c28_4) : dep \in {s44, s45}}
    \cup {IpsLine(s044, sRENNES, cPublic, uaiA, y2023, c101_5, c28_4),
          IpsLine(s044, sNANTES, cPriveContrat, uaiA, y2023, c101_5, c28_4),
          IpsLine(s044, sNANTES, <<>>, uaiA, y2023, c101_5, c28_4),
          IpsLine(s044, sNANTES, cPublic, <<>>, y2023, c101_5, c28_4)}
    \cup {IpsGood(uaiA, y2023, cell, c28_4) : cell \in {<<>>, cAbc, cNan, cInf, c101_5}}
    \cup {IpsGood(uaiB, y2022, c95_25, cell) : cell \in {<<>>, cAbc, c28_4}}
    \* an older row of 044A without index
    \cup {IpsGood(uaiA, y2022, <<>>, c28_4)}
    \cup {SubSeq(IpsGood(uaiB, y2022, c95_25, c28_4), 1, 4)}

IpsFiles ==
    {[fieldnames |-> IpsFields, rows |-> rows] : rows \in SeqsUpTo(IpsLines, MaxRows)}
    \cup UNION {FilesWithout(IpsFields, IpsGood(uaiA, y2023, c101_5, c28_4), i) : i \in 1..4}
    \cup {NoFile}

IpsSample ==
    [fieldnames |-> IpsFields,
     rows |-> <<IpsGood(uaiA, y2023, c101_5, c28_4), IpsGood(uaiC, y2023, c95_25, <<>>)>>]

-----------------------------------------------------------------------------
(* main *)

DefaultArgs ==
    [departement |-> s44, academie |-> sNANTES, nature_prefix |-> sNaturePrefix, ips |-> FALSE]

Start(a, f, out) ==
    /\ pc = "load_indicateurs"
    /\ args = a
    /\ files = f
    /\ ind_rows = <<>>
    /\ eff_map = EmptyMap
    /\ ips_map = EmptyMap
    /\ records = <<>>
    /\ summary = Summary(<<>>)
    /\ baseRows = <<>>
    /\ output = out
    /\ calls = <<>>
    /\ script = "not_loaded"
    /\ sortKey = "undefined"
    /\ sortDir = "undefined"
    /\ filterText = <<>>
    /\ tbody = <<>>

\* Runs that vary the indicator file.
InitIndicateurs ==
    \E f \in IndFiles :
        Start(DefaultArgs, [ind |-> f, eff |-> EffSample, ips |-> NoFile], "absent")

\* Runs that vary the headcount file.
InitEffectifs ==
    \E f \in EffFiles :
        Start(DefaultArgs, [ind |-> IndSample, eff |-> f, ips |-> NoFile], "absent")

\* Runs that vary the social-index file.
InitIps ==
    \E f \in IpsFiles :
        Start([DefaultArgs EXCEPT !.ips = TRUE],
              [ind |-> IndSample, eff |-> EffSample, ips |-> f], "absent")

\* Runs that vary the command line and the state of the output path.
InitArgs ==
    \E dep \in {s44, s044, s4}, acad \in {sNANTES, sNantes}, prefix \in {sNaturePrefix, sNaturePrefixShort},
       withIps \in BOOLEAN, out \in {"absent", "previous"} :
        Start([departement |-> dep, academie |-> acad, nature_prefix |-> prefix, ips |-> withIps],
              [ind |-> [fieldnames |-> IndFields,
                        rows |-> <<IndGood(uaiA, c30, c12_5),
                                   IndLine(s044, sNANTES, cPublic, cNatCollege, uaiB, c30, c7)>>],
               eff |-> [fieldnames |-> EffFields,
                        rows |-> <<EffGood(uaiA, y2023, c300, c16, c12),
                                   EffLine(s044, sNANTES, cTypeCollege, cPublic, uaiB, y2023,
                                           c450, c16, c12)>>],
               ips |-> IF withIps THEN IpsSample ELSE NoFile],
              out)

Init == InitIndicateurs \/ InitEffectifs \/ InitIps \/ InitArgs

\* An exception leaves main before any later statement runs.
Abort == pc' = "aborted" /\ UNCHANGED calls
Returned(name) == calls' = Append(calls, name)

\* main with the output file opened for writing before the inputs are loaded.
LoadIndicateursOpensOutput ==
    /\ pc = "load_indicateurs"
    /\ ind_rows' = load_indicateurs(files.ind, args.departement, args.academie,
                                    args.nature_prefix)
    /\ output' = "truncated"
    /\ pc' = "load_effectifs_latest"
    /\ Returned("load_indicateurs")
    /\ UNCHANGED <<args, files, eff_map, ips_map, records, summary, baseRows, script>>
    /\ UNCHANGED <<sortKey, sortDir, filterText, tbody>>

\* line 560
LoadIndicateurs ==
    /\ pc = "load_indicateurs"
    /\ ind_rows' = load_indicateurs(files.ind, args.departement, args.academie,
                                    args.nature_prefix)
    /\ pc' = "load_effectifs_latest"
    /\ Returned("load_indicateurs")
    /\ UNCHANGED <<args, files, eff_map, ips_map, records, summary, baseRows, output, script>>
    /\ UNCHANGED <<sortKey, sortDir, filterText, tbody>>

\* line 44: the indicator file cannot be opened or read.
LoadIndicateursOSError ==
    /\ pc = "load_indicateurs"
    /\ Abort
    /\ UNCHANGED <<args, files, ind_rows, eff_map, ips_map, records, summary, baseRows, output, script>>
    /\ UNCHANGED <<sortKey, sortDir, filterText, tbody>>

\* line 561
LoadEffectifs ==
    /\ pc = "load_effectifs_latest"
    /\ LET res == load_effectifs_latest(files.eff, args.departement, args.academie)
       IN  IF res.err
           THEN Abort /\ UNCHANGED eff_map
           ELSE eff_map' = res.map /\ pc' = "load_ips" /\ Returned("load_effectifs_latest")
    /\ UNCHANGED <<args, files, ind_rows, ips_map, records, summary, baseRows, output, script>>
    /\ UNCHANGED <<sortKey, sortDir, filterText, tbody>>

\* line 79: the headcount file cannot be opened or read.
LoadEffectifsOSError ==
    /\ pc = "load_effectifs_latest"
    /\ Abort
    /\ UNCHANGED <<args, files, ind_rows, eff_map, ips_map, records, summary, baseRows, output, script>>
    /\ UNCHANGED <<sortKey, sortDir, filterText, tbody>>

\* lines 558 and 562: without --ips the path is None and load_ips returns {}.
LoadIps ==
    /\ pc = "load_ips"
    /\ LET res == IF args.ips THEN load_ips(files.ips, args.departement, args.academie)
                  ELSE [err |-> FALSE, map |-> EmptyMap]
       IN  IF res.err
           THEN Abort /\ UNCHANGED ips_map
           ELSE ips_map' = res.map /\ pc' = "merge_data" /\ Returned("load_ips")
    /\ UNCHANGED <<args, files, ind_rows, eff_map, records, summary, baseRows, output, script>>
    /\ UNCHANGED <<sortKey, sortDir, filterText, tbody>>

\* line 147: the social-index file was named and cannot be opened or read.
LoadIpsOSError ==
    /\ pc = "load_ips"
    /\ args.ips
    /\ Abort
    /\ UNCHANGED <<args, files, ind_rows, eff_map, ips_map, records, summary, baseRows, output, script>>
    /\ UNCHANGED <<sortKey, sortDir, filterText, tbody>>

\* line 565
MergeData ==
    /\ pc = "merge_data"
    /\ records' = MergeRecords(ind_rows, eff_map, ips_map)
    /\ summary' = Summary(MergeRecords(ind_rows, eff_map, ips_map))
    /\ pc' = "render_html"
    /\ Returned("merge_data")
    /\ UNCHANGED <<args, files, ind_rows, eff_map, ips_map, baseRows, output, script>>
    /\ UNCHANGED <<sortKey, sortDir, filterText, tbody>>

\* lines 567-579: the document is a function of records and summary, which
\* stay as they are.
RenderHtml ==
    /\ pc = "render_html"
    /\ pc' = "write_text"
    /\ Returned("render_html")
    /\ UNCHANGED <<args, files, ind_rows, eff_map, ips_map, records, summary, baseRows, output,
                   script>>
    /\ UNCHANGED <<sortKey, sortDir, filterText, tbody>>

\* lines 581-583
WriteText ==
    /\ pc = "write_text"
    /\ output' = "dashboard"
    /\ pc' = "done"
    /\ Returned("write_text")
    /\ UNCHANGED <<args, files, ind_rows, eff_map, ips_map, records, summary, baseRows, script>>
    /\ UNCHANGED <<sortKey, sortDir, filterText, tbody>>

\* lines 418-537: a browser opens the written document and runs its script.
\* JSON.parse throws on the data block when json.dumps wrote NaN or Infinity
\* into it, and the script stops there; otherwise baseRows is computed and
\* the table rendered.
OpenReport ==
    /\ output = "dashboard"
    /\ script = "not_loaded"
    /\ IF JsonParseThrows(records, summary)
       THEN script' = "SyntaxError" /\ UNCHANGED <<baseRows, sortKey, sortDir, tbody>>
       ELSE /\ script' = "rendered"
            /\ baseRows' = BaseRows(records)
            /\ sortKey' = "aed_etp"
            /\ sortDir' = "desc"
            /\ tbody' \in renderTable(BaseRows(records), filterText, "aed_etp", "desc")
    /\ UNCHANGED <<pc, args, files, ind_rows, eff_map, ips_map, records, summary, output, calls,
                   filterText>>

\* lines 523-534: a click on the header of column key.
ClickHeader(key) ==
    /\ script = "rendered"
    /\ IF sortKey = key
       THEN /\ sortDir' = (IF sortDir = "asc" THEN "desc" ELSE "asc")
            /\ UNCHANGED sortKey
       ELSE /\ sortKey' = key
            /\ sortDir' = (IF key = "nom" \/ key = "commune" THEN "asc" ELSE "desc")
    /\ tbody' \in renderTable(baseRows, filterText, sortKey', sortDir')
    /\ UNCHANGED <<pc, args, files, ind_rows, eff_map, ips_map, records, summary, baseRows, output,
                   calls, script, filterText>>

\* line 536: the user edits the filter input.
InputFilter(q) ==
    /\ script = "rendered"
    /\ q # filterText
    /\ filterText' = q
    /\ tbody' \in renderTable(baseRows, q, sortKey, sortDir)
    /\ UNCHANGED <<pc, args, files, ind_rows, eff_map, ips_map, records, summary, baseRows, output,
                   calls, script, sortKey, sortDir>>

Next ==
    \/ LoadIndicateurs
    \/ LoadIndicateursOSError
    \/ LoadEffectifs
    \/ LoadEffectifsOSError
    \/ LoadIps
    \/ LoadIpsOSError
    \/ MergeData
    \/ RenderHtml
    \/ WriteText
    \/ OpenReport

Spec == Init /\ [][Next]_vars

\* The generated report in use: main's run on files that give the table rows
\* with and without a value in every sortable column but the name, equal
\* values and repeated identifiers, then the reader's clicks and typing.
ReportIndLines ==
    {IndGood(uaiA, c30, c12_5), IndGood(uaiA, c7, c7), IndGood(uaiB, c30, <<>>),
     IndGood(uaiC, cAbc, c7)}

\* Headcounts and indices for 044A and 044B, none for 044C.
ReportEff ==
    [fieldnames |-> EffFields,
     rows |-> <<EffGood(uaiA, y2023, c300, c16, c12),
                [EffGood(uaiB, y2023, c450, <<>>, c0) EXCEPT ![7] = sNantes]>>]
ReportIps ==
    [fieldnames |-> IpsFields,
     rows |-> <<IpsGood(uaiA, y2023, c101_5, c28_4), IpsGood(uaiB, y2023, c95_25, c12_5)>>]

InitReport ==
    \E rows \in SeqsUpTo(ReportIndLines, MaxRows + 1) :
        Start([DefaultArgs EXCEPT !.ips = TRUE],
              [ind |-> [fieldnames |-> IndFields, rows |-> rows],
               eff |-> ReportEff, ips |-> ReportIps], "absent")

NextReport ==
    \/ Next
    \/ \E key \in SortKeys : ClickHeader(key)
    \/ \E q \in FilterTexts : InputFilter(q)

SpecReport == InitReport /\ [][NextReport]_vars

-----------------------------------------------------------------------------
(* Properties *)

\* The positions of main at which load_effectifs_latest has returned its map.
EffLoaded == "load_effectifs_latest" \in Range(calls)
Merged == "merge_data" \in Range(calls)
\* The document's script ran to its end.
Rendered == script = "rendered"

\* The headcount file as the loader reads it: its rows, the resolved column
\* names, and the positions of the rows that passed the four filters and
\* carry a non-empty identifier.
EffRows == DictRows(files.eff)
EffK == EffectifsKeys(files.eff.fieldnames)
Qualifying(rows, keys) ==
    {i \in 1..Len(rows) : EffectifsKeep(rows[i], keys, args.departement, args.academie)}
YearIn(r, keys) == GetOr(r, keys.year, <<>>)

\* C1: the map returned by load_effectifs_latest has exactly the identifiers of
\* the qualifying rows as keys, and each record's year is the lexicographic
\* maximum of the years of the qualifying rows of its identifier.
C1_LatestYearIsMax ==
    EffLoaded =>
        LET rows == EffRows
            keys == EffK
            qual == Qualifying(rows, keys)
        IN  /\ DOMAIN eff_map = {Get(rows[i], keys.uai) : i \in qual}
            /\ \A u \in DOMAIN eff_map :
                /\ \E i \in qual :
                    Get(rows[i], keys.uai) = u /\ YearIn(rows[i], keys) = eff_map[u].year
                /\ \A i \in qual :
                    Get(rows[i], keys.uai) = u => StrLeq(YearIn(rows[i], keys), eff_map[u].year)

\* Two qualifying rows of one identifier, the newer one first and the second
\* with an empty year, have been loaded.
C1_Witness ==
    /\ EffLoaded
    /\ LET rows == EffRows
           keys == EffK
           qual == Qualifying(rows, keys)
       IN  \E i, j \in qual :
            /\ i < j
            /\ Get(rows[i], keys.uai) = Get(rows[j], keys.uai)
            /\ YearIn(rows[j], keys) = <<>>
            /\ YearIn(rows[i], keys) # <<>>
            /\ eff_map[Get(rows[i], keys.uai)].year = YearIn(rows[i], keys)

NumericFields == RecordNumbers

\* "zero or negative"
NotPositive(x) == (IsFinite(x) /\ Hundredths(x) <= 0) \/ (x.k = "inf" /\ x.v = -1)

\* q is the JavaScript number eleves / aed, for an int eleves and a number aed
\* that is not zero or negative.
IsQuotient(q, eleves, aed) ==
    CASE aed.k = "nan" -> q = JsNaN
      [] aed.k = "inf" -> q.k = "number" /\ q.n = 0
      [] OTHER -> q.k = "number" /\ q.n * Hundredths(aed) = eleves.v * 100 * q.d

\* C2: in the rows the report computes, the ratio of every merged record is
\* null when aed_etp is null, zero or negative or eleves is null, and is
\* eleves / aed_etp in every other case.
C2_RatioNullOrQuotient ==
    Rendered =>
        /\ Len(baseRows) = Len(records)
        /\ \A i \in 1..Len(records) :
            LET aed == records[i].aed_etp
                eleves == records[i].eleves
            IN  IF aed = PyNone \/ NotPositive(aed) \/ eleves = PyNone
                THEN baseRows[i].ratio = JsNull
                ELSE IsQuotient(baseRows[i].ratio, eleves, aed)

\* The report shows a row with the ratio 300 / 12.5 and a row with students
\* and a staffing FTE of zero or less, whose ratio is null.
C2_Witness ==
    /\ Rendered
    /\ \E i \in 1..Len(records) :
        /\ records[i].eleves = PyInt(300)
        /\ records[i].aed_etp = PyFloat(1250)
        /\ baseRows[i].ratio = JsNum(30000, 1250)
    /\ \E i \in 1..Len(records) :
        /\ NotPositive(records[i].aed_etp)
        /\ records[i].eleves # PyNone
        /\ baseRows[i].ratio = JsNull

\* Each statistic of the summary with the record field it is computed from.
SummaryFields ==
    {<<"aed_total", "aed_etp">>, <<"aed_moyen", "aed_etp">>, <<"aed_min", "aed_etp">>,
     <<"aed_max", "aed_etp">>, <<"etp_ens_total", "etp_enseignants">>,
     <<"etp_ens_moyen", "etp_enseignants">>, <<"eleves_total", "eleves">>,
     <<"segpa_total", "segpa">>, <<"ulis_total", "ulis">>, <<"ips_moyen", "ips">>,
     <<"ips_min", "ips">>, <<"ips_max", "ips">>}

AllNull(f) == \A i \in 1..Len(records) : records[i][f] = PyNone

\* C3: a statistic whose field is null in every record (or with no record at
\* all) is null, and nb_colleges is the number of records.
C3_EmptyStatIsNull ==
    Merged =>
        /\ summary.nb_colleges = Len(records)
        /\ \A p \in SummaryFields : AllNull(p[2]) => summary[p[1]] = PyNone

\* Records exist, none has a staffing FTE and none a social index.
C3_Witness ==
    /\ Merged
    /\ Len(records) >= 1
    /\ AllNull("aed_etp")
    /\ AllNull("ips")
    /\ summary.aed_total = PyNone
    /\ ~AllNull("etp_enseignants")

\* C4: every numeric field of every merged record is a finite number or null.
C4_FiniteOrNull ==
    Merged =>
        \A i \in 1..Len(records) : \A f \in NumericFields :
            records[i][f].k \in {"None", "int", "float"}

\* C5: no identifier appears in two merged records.
C5_UniqueUai ==
    Merged =>
        \A i, j \in 1..Len(records) : i # j => records[i].uai # records[j].uai

\* The cell is missing, empty or not an integer literal.
NoIntIn(cell) == ~Truthy(cell) \/ ~IntOfStr(cell).ok

\* C6: a count of a retained record is null when the cell of the row it was
\* built from (the first qualifying row of the identifier with the retained
\* year) is missing, empty or non-numeric, and is 0 only when the cell parses
\* to the integer 0.
C6_CountNullNotZero ==
    EffLoaded =>
        LET rows == EffRows
            keys == EffK
            qual == Qualifying(rows, keys)
        IN  \A u \in DOMAIN eff_map :
                LET idx == {i \in qual : /\ Get(rows[i], keys.uai) = u
                                         /\ YearIn(rows[i], keys) = eff_map[u].year}
                    row == rows[CHOOSE i \in idx : \A j \in idx : i <= j]
                IN  \A p \in {<<"eleves", keys.eleves>>, <<"segpa", keys.segpa>>,
                              <<"ulis", keys.ulis>>} :
                        LET cell == Get(row, p[2])
                        IN  /\ NoIntIn(cell) => eff_map[u][p[1]] = PyNone
                            /\ eff_map[u][p[1]] = PyInt(0) =>
                                    ~NoIntIn(cell) /\ IntOfStr(cell).val = PyInt(0)

\* The cell is empty, absent or not a float literal.
NoFloatIn(cell) == ~Truthy(cell) \/ ~FloatOfStr(cell).ok

\* The values of the numeric cells of a column of the kept indicator rows.
IndNumbers(key) ==
    LET cells == [i \in 1..Len(ind_rows) |-> Get(ind_rows[i], key)]
        numeric == SelectSeq(cells, LAMBDA c : ~NoFloatIn(c))
    IN  [i \in 1..Len(numeric) |-> FloatOfStr(numeric[i]).val]

\* C7: an empty, absent or non-numeric FTE cell gives null in the record, for
\* both FTE fields, and the summary statistics are those of the numeric cells.
C7_FteCellNull ==
    Merged =>
        /\ \A i \in 1..Len(records) :
            /\ NoFloatIn(Get(ind_rows[i], "ETP de personnels de vie scolaire"))
                    => records[i].aed_etp = PyNone
            /\ NoFloatIn(Get(ind_rows[i], "ETP enseignants (hommes et femmes)"))
                    => records[i].etp_enseignants = PyNone
        /\ summary.aed_total = TotalOf(IndNumbers("ETP de personnels de vie scolaire"))
        /\ summary.aed_moyen = MeanOf(IndNumbers("ETP de personnels de vie scolaire"))
        /\ summary.aed_min = MinOf(IndNumbers("ETP de personnels de vie scolaire"))
        /\ summary.aed_max = MaxOf(IndNumbers("ETP de personnels de vie scolaire"))
        /\ summary.etp_ens_total = TotalOf(IndNumbers("ETP enseignants (hommes et femmes)"))
        /\ summary.etp_ens_moyen = MeanOf(IndNumbers("ETP enseignants (hommes et femmes)"))

\* The part of C7 about the staffing FTE alone.
C7_AedCellNull ==
    Merged =>
        /\ \A i \in 1..Len(records) :
            NoFloatIn(Get(ind_rows[i], "ETP de personnels de vie scolaire"))
                => records[i].aed_etp = PyNone
        /\ summary.aed_total = TotalOf(IndNumbers("ETP de personnels de vie scolaire"))
        /\ summary.aed_moyen = MeanOf(IndNumbers("ETP de personnels de vie scolaire"))
        /\ summary.aed_min = MinOf(IndNumbers("ETP de personnels de vie scolaire"))
        /\ summary.aed_max = MaxOf(IndNumbers("ETP de personnels de vie scolaire"))


IndUai(r) == Get(r, "Identifiant de l'établissement")

\* C8: the records are the kept indicator rows in order, one each; the
\* headcount fields of a record are null when its identifier is no key of the
\* headcount map, its social-index fields when it is no key of the social-index
\* map, and without a social-index path they are null in every record.
C8_PositionalLeftJoin ==
    Merged =>
        /\ Len(records) = Len(ind_rows)
        /\ ind_rows = load_indicateurs(files.ind, args.departement, args.academie,
                                       args.nature_prefix)
        /\ \A i \in 1..Len(records) :
            /\ records[i].uai = IndUai(ind_rows[i])
            /\ IndUai(ind_rows[i]) \notin DOMAIN eff_map =>
                /\ records[i].eleves = PyNone
                /\ records[i].effectifs_annee = None
                /\ records[i].commune = None
                /\ records[i].segpa = PyNone
                /\ records[i].ulis = PyNone
            /\ IndUai(ind_rows[i]) \in DOMAIN eff_map =>
                records[i].effectifs_annee = eff_map[IndUai(ind_rows[i])].year
            /\ (IndUai(ind_rows[i]) \notin DOMAIN ips_map \/ ~args.ips) =>
                /\ records[i].ips = PyNone
                /\ records[i].ips_ecart = PyNone

\* A merge without social-index path in which one identifier has a headcount
\* record and a later one has none.
C8_Witness ==
    /\ Merged
    /\ ~args.ips
    /\ \E i, j \in 1..Len(records) :
        /\ i < j
        /\ records[i].uai \in DOMAIN eff_map
        /\ records[j].uai \notin DOMAIN eff_map
        /\ records[j].eleves = PyNone

IndLoaded == "load_indicateurs" \in Range(calls)
IndRows == DictRows(files.ind)

\* C9: with the department argument "44", no indicator row with department
\* code "044" is kept, and every headcount row with department code "044" or
\* "44" that passes the other filters is taken into the map.
C9_DepartmentPadding ==
    args.departement = s44 =>
        /\ IndLoaded =>
            \A i \in 1..Len(ind_rows) : Get(ind_rows[i], "Code département") # s044
        /\ EffLoaded =>
            LET rows == EffRows
                keys == EffK
            IN  \A i \in 1..Len(rows) :
                    (/\ Get(rows[i], keys.dep) \in {s044, s44}
                     /\ EffectifsKeepOther(rows[i], keys, args.academie))
                        => Get(rows[i], keys.uai) \in DOMAIN eff_map

\* Both files hold a row with department code "044" that passes the other
\* filters; the indicator one was dropped, the headcount one retained.
C9_Witness ==
    /\ args.departement = s44
    /\ EffLoaded
    /\ \E i \in 1..Len(IndRows) :
        /\ Get(IndRows[i], "Code département") = s044
        /\ IndicateursKeep(IndRows[i], s044, args.academie, args.nature_prefix)
        /\ \A k \in 1..Len(ind_rows) : ind_rows[k] # IndRows[i]
    /\ LET rows == EffRows
           keys == EffK
       IN  \E i \in 1..Len(rows) :
            /\ Get(rows[i], keys.dep) = s044
            /\ Get(rows[i], keys.uai) \in DOMAIN eff_map
            /\ \A j \in 1..Len(rows) :
                Get(rows[j], keys.dep) # s044 => Get(rows[j], keys.uai) # Get(rows[i], keys.uai)

MainCalls ==
    <<"load_indicateurs", "load_effectifs_latest", "load_ips", "merge_data", "render_html",
      "write_text">>
OutputUntouched == output \in {"absent", "previous"}

\* C10: the output path is touched only once the three loaders, the merge and
\* the rendering have returned; an aborted run leaves it as it was; and a run
\* without social-index path never fails in load_ips.
C10_WriteOnlyAfterLoads ==
    /\ ~OutputUntouched => calls = MainCalls /\ pc = "done"
    /\ pc = "aborted" => OutputUntouched
    /\ (pc = "aborted" /\ ~args.ips) => calls # SubSeq(MainCalls, 1, 2)
    /\ pc = "done" => output = "dashboard"

\* A run that found an existing output file and failed on the social-index file.
C10_Witness ==
    /\ pc = "aborted"
    /\ args.ips
    /\ calls = SubSeq(MainCalls, 1, 2)
    /\ output = "previous"

IpsLoaded == "load_ips" \in Range(calls)
\* main has called the loader: it returned or an exception left it.
EffCalled == Len(calls) >= 1 /\ pc # "load_effectifs_latest"
IpsCalled == args.ips /\ Len(calls) >= 2 /\ pc # "load_ips"

\* The header has names and lacks every alias of one of the loader's filter columns.
IndFilterColumns ==
    {"Code département", "Libellé académie", "Secteur", "Nature de l'établissement"}
IndColumnAbsent ==
    /\ files.ind.fieldnames # <<>>
    /\ \E c \in IndFilterColumns : c \notin Range(files.ind.fieldnames)
EffAbsentColumns(fieldnames) ==
    LET k == EffectifsKeys(fieldnames)
    IN  {c \in {"dep", "acad", "type", "secteur", "uai"} : k[c] = NoKey}
EffColumnAbsent ==
    files.eff.fieldnames # <<>> /\ EffAbsentColumns(files.eff.fieldnames) # {}
IpsAbsentColumns(fieldnames) ==
    LET k == IpsKeys(fieldnames)
    IN  {c \in {"dep", "acad", "secteur", "uai"} : k[c] = NoKey}
IpsColumnAbsent ==
    files.ips.fieldnames # <<>> /\ IpsAbsentColumns(files.ips.fieldnames) # {}
\* No line of the file has more cells than the header has names.
NoLongLine(file) == \A i \in 1..Len(file.rows) : Len(file.rows[i]) <= Len(file.fieldnames)

\* C11: when the header lacks a column a loader filters on, the loader does
\* not raise and returns an empty result: no indicator row, an empty
\* headcount map, an empty social-index map.
C11_AbsentColumnEmptyResult ==
    /\ (IndLoaded /\ IndColumnAbsent) => ind_rows = <<>>
    /\ (EffCalled /\ EffColumnAbsent) =>
            /\ ~load_effectifs_latest(files.eff, args.departement, args.academie).err
            /\ EffLoaded => eff_map = EmptyMap
    /\ (IpsCalled /\ IpsColumnAbsent) =>
            /\ ~load_ips(files.ips, args.departement, args.academie).err
            /\ IpsLoaded => ips_map = EmptyMap

\* What holds of it: the indicator loader always; the other two for every
\* column but the social-index sector, as long as no line is longer than the
\* header.
C11_ExceptSectorAndLongLines ==
    /\ (IndLoaded /\ IndColumnAbsent) => ind_rows = <<>>
    /\ (EffCalled /\ EffColumnAbsent /\ NoLongLine(files.eff)) =>
            /\ ~load_effectifs_latest(files.eff, args.departement, args.academie).err
            /\ EffLoaded => eff_map = EmptyMap
    /\ (IpsCalled /\ IpsColumnAbsent /\ NoLongLine(files.ips)
            /\ IpsAbsentColumns(files.ips.fieldnames) # {"secteur"}) =>
            /\ ~load_ips(files.ips, args.departement, args.academie).err
            /\ IpsLoaded => ips_map = EmptyMap

\* a and b hold the same elements the same number of times.
IsPermutation(a, b) ==
    /\ Len(a) = Len(b)
    /\ \A x \in Range(a) \cup Range(b) :
        Cardinality({i \in 1..Len(a) : a[i] = x}) = Cardinality({i \in 1..Len(b) : b[i] = x})
\* The value of the i-th row of the table under the sort key, and whether it is null.
ValueAt(i) == tbody[i][sortKey]
NullAt(i) == JsIsNull(sortKey, ValueAt(i))

\* C12: the table shows the filtered rows with, for every sort key and both
\* directions, every row whose value under the key is null after every row
\* whose value is not, and the non-null values ascending for asc, descending
\* for desc.
C12_NullsLastBothDirections ==
    Rendered =>
        /\ sortKey \in SortKeys /\ sortDir \in {"asc", "desc"}
        /\ IsPermutation(tbody, applyFilter(baseRows, filterText))
        /\ \A i, j \in 1..Len(tbody) :
            i < j =>
                /\ ~(NullAt(i) /\ ~NullAt(j))
                /\ (~NullAt(i) /\ ~NullAt(j)) =>
                        IF sortDir = "asc" THEN ~JsLess(sortKey, ValueAt(j), ValueAt(i))
                        ELSE ~JsLess(sortKey, ValueAt(i), ValueAt(j))

\* An ascending table of three rows after header clicks: two different
\* non-null values in order, then the row with null that stood second
\* among the unsorted rows.
C12_Witness ==
    /\ Rendered
    /\ sortDir = "asc"
    /\ filterText = <<>>
    /\ Len(tbody) = 3
    /\ ~NullAt(1) /\ ~NullAt(2) /\ NullAt(3)
    /\ JsLess(sortKey, ValueAt(1), ValueAt(2))
    /\ JsIsNull(sortKey, baseRows[2][sortKey])

\* The social-index file as the loader reads it, and the positions of the
\* rows that pass its filters.
IpsRows == DictRows(files.ips)
IpsK == IpsKeys(files.ips.fieldnames)
IpsQualifying(rows, keys) ==
    {i \in 1..Len(rows) : IpsKeep(rows[i], keys, args.departement, args.academie)}

\* C13: the social-index map holds, for each identifier of a qualifying row,
\* the record built from the last qualifying row of that identifier in file
\* order, whatever the years and the index values of the earlier ones.
C13_LastWriteWins ==
    (IpsLoaded /\ args.ips /\ files.ips.fieldnames # <<>>) =>
        LET rows == IpsRows
            keys == IpsK
            qual == IpsQualifying(rows, keys)
        IN  /\ DOMAIN ips_map = {Get(rows[i], keys.uai) : i \in qual}
            /\ \A i \in qual :
                (\A j \in qual : j > i => Get(rows[j], keys.uai) # Get(rows[i], keys.uai))
                    => ips_map[Get(rows[i], keys.uai)] =
                        [ips   |-> FloatCellOrNone(Get(rows[i], keys.ips)),
                         ecart |-> FloatCellOrNone(Get(rows[i], keys.ecart)),
                         year  |-> Get(rows[i], keys.year)]

\* Two qualifying rows of one identifier, the first of 2023 with an index,
\* the last of 2022 without: the map holds the last one.
C13_Witness ==
    /\ IpsLoaded /\ args.ips /\ files.ips.fieldnames # <<>>
    /\ LET rows == IpsRows
           keys == IpsK
           qual == IpsQualifying(rows, keys)
       IN  \E i, j \in qual :
            /\ i < j
            /\ Get(rows[i], keys.uai) = Get(rows[j], keys.uai)
            /\ Get(rows[i], keys.year) = y2023 /\ Get(rows[j], keys.year) = y2022
            /\ FloatCellOrNone(Get(rows[i], keys.ips)) = PyFloat(10150)
            /\ \A k \in qual : k <= j
            /\ ips_map[Get(rows[j], keys.uai)] = [ips |-> PyNone, ecart |-> PyFloat(2840),
                                                  year |-> y2022]

====
